---- MODULE Spec2Model ----
(***************************************************************************)
(* DJ Set Architect: the class template DynamicArray<T>, the owning        *)
(* TrackManager built on DynamicArray<TrackBase*>, the fixed-size library  *)
(* of Weeks 1-4, the input prompts and the menu loop of main               *)
(* (src/Dj Archetex/Dj Archetex.cpp).                                      *)
(*                                                                         *)
(* A DynamicArray is the record [items, size, capacity]; items is the      *)
(* backing store, a function on 0..capacity-1, slots at and above size     *)
(* included (they keep whatever the code left there).  A TrackManager is   *)
(* the record [items |-> DynamicArray of handles].  Track objects live in  *)
(* heap, a sequence giving for each object the number of times delete was  *)
(* applied to it; a handle is an index into heap and nullptr is 0.         *)
(***************************************************************************)
EXTENDS Integers, Sequences, FiniteSets

VARIABLES
    scenario,   \* what runs: "array" (a DynamicArray<int> and its callers),
                \* "handles" (a DynamicArray<TrackBase*> and its callers),
                \* "manager" (a TrackManager and its callers), "main" (the menu
                \* loop, choices 5-10), "legacy" (the menu loop, choices 1-4),
                \* "calc" (the library functions called on an array),
                \* "equality" (LocalTrack objects compared), or main waiting
                \* at its "menu prompt", "BPM prompt" or "energy prompt"
    alive,      \* FALSE once the object's destructor has run
    a,          \* the DynamicArray<int> or DynamicArray<TrackBase*> under test
    m,          \* the TrackManager under test
    heap,       \* heap[o] = number of times object o has been destroyed
    op,         \* the last call: [name, arg, ok, val]
    pre,        \* the state that call started from (see Snapshot)
    nAdd,       \* calls of TrackManager::add so far
    nRemoved,   \* calls of TrackManager::removeAt that returned true so far
    objs,       \* objs[o] = the fields of track object o
    cout,       \* the lines the last call printed on the console
    fout,       \* the lines the last call wrote to its report file
    library,    \* main's Track library[MAX_TRACKS] (Weeks 1-4)
    trackCount, \* main's trackCount
    cin         \* what is typed at the prompt under test, not yet read

vars == <<scenario, alive, a, m, heap, op, pre, nAdd, nRemoved,
          objs, cout, fout, library, trackCount, cin>>

---------------------------------------------------------------------------
(* Bounds of the model *)

\* largest capacity requested from a constructor (requests start at -1)
MaxInitCap == 5
\* pushBack stops once the DynamicArray<int> holds this many elements
MaxSize == 5
\* int values pushed are 0..MaxVal
MaxVal == 1
\* track objects allocated in one run
MaxObj == 5
\* lines typed at one prompt
MaxTyped == 2
\* tracks in an array handed to computeAverageBPM directly
MaxCalc == 3
\* track objects whose handles go into a DynamicArray<TrackBase*> directly
MaxHandles == 3

---------------------------------------------------------------------------
(* Values *)

\* T(): the value-initialised element, 0 for int and nullptr for TrackBase*
TDefault == 0
nullptr == 0
\* what new T[n] leaves in a slot nobody has assigned yet
Uninit == -1

InitCaps == -1..MaxInitCap
Values == 0..MaxVal
\* indices tried: one below 0, every slot of the store, one past the store
Indexes(d) == -1..d.capacity

---------------------------------------------------------------------------
(* Program constants *)

MAX_TRACKS == 7
BPM_MIN == 60
BPM_MAX == 200
MENU_MIN == 1
MENU_MAX == 10
\* enum EnergyLevel
LOW == 1
MEDIUM == 2
HIGH == 3

---------------------------------------------------------------------------
(* DynamicArray<T> *)

\* mutant of resize: the copy loop stops one element early
resize_lossy(d, newCap) ==
    [d EXCEPT !.items = [k \in 0..(newCap - 1) |->
                            IF k < d.size - 1 THEN d.items[k] ELSE Uninit],
              !.capacity = newCap]

\* resize: a new store of newCap slots, the first size elements copied over
resize(d, newCap) ==
    [d EXCEPT !.items = [k \in 0..(newCap - 1) |->
                            IF k < d.size THEN d.items[k] ELSE Uninit],
              !.capacity = newCap]

\* the constructor: capacity floored at 2, an unassigned store, size 0
DynamicArray(cap) ==
    LET capacity == IF cap < 2 THEN 2 ELSE cap
    IN  [items |-> [k \in 0..(capacity - 1) |-> Uninit],
         size |-> 0, capacity |-> capacity]

\* mutant of pushBack: a full store grows by one slot instead of doubling
pushBack_grow1(d, value) ==
    LET d1 == IF d.size >= d.capacity
              THEN [d EXCEPT !.items = [k \in 0..d.capacity |->
                                           IF k < d.size THEN d.items[k] ELSE Uninit],
                             !.capacity = d.capacity + 1]
              ELSE d
    IN  [d1 EXCEPT !.items[d.size] = value, !.size = d.size + 1]

\* mutant of pushBack: a full store drops the value (fixed capacity)
pushBack_dropfull(d, value) ==
    IF d.size >= d.capacity
    THEN d
    ELSE [d EXCEPT !.items[d.size] = value, !.size = d.size + 1]

\* pushBack: double a full store, then store the value at index size
pushBack(d, value) ==
    LET d1 == IF d.size >= d.capacity THEN resize(d, d.capacity * 2) ELSE d
    IN  [d1 EXCEPT !.items[d.size] = value, !.size = d.size + 1]

\* mutant of shiftLeft: the loop starts one slot late
shiftLeft_late(items, i, size) ==
    [k \in DOMAIN items |->
        IF k > i /\ k < size - 1 THEN items[k + 1] ELSE items[k]]

\* the shift loop of removeAt: for (i = index; i < size - 1; i++) items[i] = items[i+1]
RECURSIVE shiftLeft(_, _, _)
shiftLeft(items, i, size) ==
    IF i < size - 1
    THEN shiftLeft([items EXCEPT ![i] = items[i + 1]], i + 1, size)
    ELSE items

\* mutant of removeAt: on a non-empty array the bounds check lets index = size through
removeAt_offbyone(d, index) ==
    IF index < 0 \/ index > d.size \/ d.size = 0
    THEN [d |-> d, ret |-> FALSE]
    ELSE LET d1 == [d EXCEPT !.items = shiftLeft(d.items, index, d.size),
                             !.size = d.size - 1]
             d2 == IF d1.size > 0 /\ d1.size <= d1.capacity \div 4 /\ d1.capacity > 2
                   THEN resize(d1, d1.capacity \div 2)
                   ELSE d1
         IN  [d |-> d2, ret |-> TRUE]

\* mutant of removeAt: the shrink goes to a quarter of the capacity
removeAt_quarter(d, index) ==
    IF index < 0 \/ index >= d.size
    THEN [d |-> d, ret |-> FALSE]
    ELSE LET d1 == [d EXCEPT !.items = shiftLeft(d.items, index, d.size),
                             !.size = d.size - 1]
             d2 == IF d1.size > 0 /\ d1.size <= d1.capacity \div 4 /\ d1.capacity > 2
                   THEN resize(d1, d1.capacity \div 4)
                   ELSE d1
         IN  [d |-> d2, ret |-> TRUE]

\* mutant of removeAt: the shrink test has no size > 0 guard
removeAt_noguard(d, index) ==
    IF index < 0 \/ index >= d.size
    THEN [d |-> d, ret |-> FALSE]
    ELSE LET d1 == [d EXCEPT !.items = shiftLeft(d.items, index, d.size),
                             !.size = d.size - 1]
             d2 == IF d1.size <= d1.capacity \div 4 /\ d1.capacity > 2
                   THEN resize(d1, d1.capacity \div 2)
                   ELSE d1
         IN  [d |-> d2, ret |-> TRUE]

\* removeAt: [d |-> the array afterwards, ret |-> the value returned]
removeAt(d, index) ==
    IF index < 0 \/ index >= d.size
    THEN [d |-> d, ret |-> FALSE]
    ELSE LET d1 == [d EXCEPT !.items = shiftLeft(d.items, index, d.size),
                             !.size = d.size - 1]
             d2 == IF d1.size > 0 /\ d1.size <= d1.capacity \div 4 /\ d1.capacity > 2
                   THEN resize(d1, d1.capacity \div 2)
                   ELSE d1
         IN  [d |-> d2, ret |-> TRUE]

\* mutant of at: the index is checked against the capacity, not the size
at_cap(d, index) ==
    IF index < 0 \/ index >= d.capacity THEN TDefault ELSE d.items[index]

\* at: the element at index, or T() when index is outside [0, size)
at(d, index) ==
    IF index < 0 \/ index >= d.size THEN TDefault ELSE d.items[index]

\* the destructor: delete[] items
DynamicArray_dtor(d) == [d EXCEPT !.items = [k \in {} |-> Uninit]]

---------------------------------------------------------------------------
(* Track objects *)

\* new LocalTrack(...) / new StreamTrack(...): a fresh object, never destroyed
new(h) == [heap |-> Append(h, 0), p |-> Len(h) + 1]

\* delete p: runs the destructor of *p; delete nullptr does nothing
delete(h, p) == IF p = nullptr THEN h ELSE [h EXCEPT ![p] = @ + 1]

\* mutant of deleteArray: the objects the slots below size point to are deleted too
deleteArray_deep(h, d) ==
    [o \in DOMAIN h |->
        h[o] + Cardinality({k \in 0..(d.size - 1) : d.items[k] = o})]

\* delete[] items on the store of a DynamicArray<TrackBase*>: the elements are
\* plain pointers, no destructor of a track object runs
deleteArray(h, d) == h

\* the heap after a container call that went from d to d1: resize ran
\* delete[] on the old store when the capacity changed
afterResize(h, d, d1) == IF d1.capacity # d.capacity THEN deleteArray(h, d) ELSE h

\* a LocalTrack or StreamTrack object: TrackBase's title, bpm, energy, the
\* derived class's filePath or platform (source), and its MixNotes
TrackObject(type, title, bpm, energy, source, notes) ==
    [type |-> type, title |-> title, bpm |-> bpm, energy |-> energy,
     source |-> source, notes |-> notes]

\* the objects the test cases allocate, alternately
\* LocalTrack("A", 120, MEDIUM, "a.wav", ...) and StreamTrack("B", 125, HIGH, "Spotify", ...)
TestTrack(p) ==
    IF p % 2 = 1
    THEN TrackObject("LocalTrack", "A", 120, MEDIUM, "a.wav", "note")
    ELSE TrackObject("StreamTrack", "B", 125, HIGH, "Spotify", "")

\* mutant of operatorEq: one matching identity field is enough
operatorEq_either(this, other) ==
    (this.title = other.title) \/ (this.source = other.source)

\* LocalTrack::operator==; a LocalTrack's source is its filePath
operatorEq(this, other) ==
    (this.title = other.title) /\ (this.source = other.source)

---------------------------------------------------------------------------
(* Output: a line is [kind, idx, p]; a table row carries the index printed  *)
(* in front of it and the handle of the object whose print() filled it      *)

Line(kind, idx, p) == [kind |-> kind, idx |-> idx, p |-> p]
Msg(kind) == Line(kind, 0, 0)

\* printWeek5TableHeader: the column titles, then printSeparator
printWeek5TableHeader == <<Msg("Idx Title Type BPM Energy Notes Source"), Msg("separator")>>

printSeparator == <<Msg("separator")>>

---------------------------------------------------------------------------
(* TrackManager *)

TrackManager(cap) == [items |-> DynamicArray(cap)]

getSize(mm) == mm.items.size
getCapacity(mm) == mm.items.capacity

\* add: the handle is appended; the manager owns the object from here on
add(mm, p) == [mm EXCEPT !.items = pushBack(mm.items, p)]

\* mutant of TrackManager::removeAt: the slot is removed first, then items.at(index) deleted
TrackManager_removeAt_late(mm, h, index) ==
    IF index < 0 \/ index >= mm.items.size
    THEN [m |-> mm, heap |-> h, ret |-> FALSE]
    ELSE LET r == removeAt(mm.items, index)
             doomed == at(r.d, index)
         IN  [m |-> [mm EXCEPT !.items = r.d], heap |-> delete(h, doomed), ret |-> r.ret]

\* mutant of TrackManager::removeAt: the object is deleted, its slot stays
TrackManager_removeAt_noslot(mm, h, index) ==
    IF index < 0 \/ index >= mm.items.size
    THEN [m |-> mm, heap |-> h, ret |-> FALSE]
    ELSE [m |-> mm, heap |-> delete(h, at(mm.items, index)), ret |-> TRUE]

\* TrackManager::removeAt: [m, heap |-> afterwards, ret |-> the value returned]
TrackManager_removeAt(mm, h, index) ==
    IF index < 0 \/ index >= mm.items.size
    THEN [m |-> mm, heap |-> h, ret |-> FALSE]
    ELSE LET doomed == at(mm.items, index)
             h1 == delete(h, doomed)
             r == removeAt(mm.items, index)
         IN  [m |-> [mm EXCEPT !.items = r.d], heap |-> h1, ret |-> r.ret]

\* operator[]
operatorIndex(mm, index) == at(mm.items, index)

\* operator+=
operatorPlusEq(mm, p) == add(mm, p)

\* mutant of operator-=: the slot is removed through the container, nothing deleted
operatorMinusEq_nodelete(mm, h, index) ==
    [m |-> [mm EXCEPT !.items = removeAt(mm.items, index).d], heap |-> h]

\* operator-=: the result of removeAt is dropped
operatorMinusEq(mm, h, index) ==
    LET r == TrackManager_removeAt(mm, h, index)
    IN  [m |-> r.m, heap |-> r.heap]

\* the loop of ~TrackManager: for (i = 0; i < getSize(); i++) delete items.at(i)
RECURSIVE deleteAll(_, _, _)
deleteAll(mm, h, i) ==
    IF i < mm.items.size
    THEN deleteAll(mm, delete(h, at(mm.items, i)), i + 1)
    ELSE h

\* mutant of ~TrackManager: only the container's store is released
TrackManager_dtor_shallow(mm, h) ==
    [m |-> [mm EXCEPT !.items = DynamicArray_dtor(mm.items)], heap |-> h]

\* ~TrackManager, then the member's ~DynamicArray
TrackManager_dtor(mm, h) ==
    [m |-> [mm EXCEPT !.items = DynamicArray_dtor(mm.items)],
     heap |-> deleteAll(mm, h, 0)]

\* mutant of printRows: the loop runs to i <= getSize()
RECURSIVE printRows_inclusive(_, _)
printRows_inclusive(mm, i) ==
    IF i <= mm.items.size
    THEN <<Line("row", i, at(mm.items, i))>> \o printRows_inclusive(mm, i + 1)
    ELSE <<>>

\* the loop of printAll: for (i = 0; i < getSize(); i++) one line, the index
\* and, when the handle is not null, the object's print()
RECURSIVE printRows(_, _)
printRows(mm, i) ==
    IF i < mm.items.size
    THEN <<Line("row", i, at(mm.items, i))>> \o printRows(mm, i + 1)
    ELSE <<>>

\* printAll: the lines written to the stream
printAll(mm) ==
    IF mm.items.size = 0
    THEN <<Msg("No tracks stored yet.")>>
    ELSE printWeek5TableHeader \o printRows(mm, 0) \o printSeparator

\* what a report call did: the console lines and the lines put in the file
Report(console, file) == [cout |-> console, fout |-> file]

\* mutant of saveReport: the test if (!fout) is missing
saveReport_nocheck(mm, opened) ==
    Report(<<Msg("Report saved to")>>,
           <<Msg("DJ SET ARCHITECT REPORT (Week 6)"),
             Line("Tracks stored:", mm.items.size, 0), Msg("")>> \o printAll(mm))

\* saveReport: opened tells whether the ofstream could open the file
saveReport(mm, opened) ==
    IF ~opened
    THEN Report(<<Msg("Could not open file:")>>, <<>>)
    ELSE Report(<<Msg("Report saved to")>>,
                <<Msg("DJ SET ARCHITECT REPORT (Week 6)"),
                  Line("Tracks stored:", mm.items.size, 0), Msg("")>> \o printAll(mm))

---------------------------------------------------------------------------
(* Input helpers of main *)

\* what is typed is a sequence of lines; the prompts read the first token of
\* a line with cin >> value and drop the rest of it with cin.ignore
Num(v) == [num |-> TRUE, v |-> v]
NaN == [num |-> FALSE, v |-> 0]

\* the lines typed at a prompt for minVal..maxVal: every number from one
\* below to one above a short range, the four edges of a long one, and text
TypedTokens(minVal, maxVal) ==
    {NaN} \cup
    (IF maxVal - minVal < MAX_TRACKS
     THEN {Num(v) : v \in (minVal - 1)..(maxVal + 1)}
     ELSE {Num(minVal - 1), Num(minVal), Num(maxVal), Num(maxVal + 1)})

TypedLines(tokens) == UNION {[1..n -> tokens] : n \in 0..MaxTyped}

\* the result of a prompt: whether it returned, the value, what is left
\* unread, and how often it printed its "Invalid" message
Prompted(returned, value, rest, rejected) ==
    [returned |-> returned, value |-> value, cin |-> rest, rejected |-> rejected]

\* mutant of getValidatedIntOn: the test value <= maxVal is missing
RECURSIVE getValidatedIntOn_nomax(_, _, _)
getValidatedIntOn_nomax(lines, minVal, maxVal) ==
    IF lines = <<>>
    THEN Prompted(FALSE, 0, <<>>, 0)
    ELSE IF Head(lines).num /\ Head(lines).v >= minVal
         THEN Prompted(TRUE, Head(lines).v, Tail(lines), 0)
         ELSE [getValidatedIntOn_nomax(Tail(lines), minVal, maxVal)
                  EXCEPT !.rejected = @ + 1]

\* getValidatedInt reading the typed lines: the loop returns the first value
\* that parses and lies in minVal..maxVal, and rejects every line before it;
\* when the lines run out it is still waiting at its prompt
RECURSIVE getValidatedIntOn(_, _, _)
getValidatedIntOn(lines, minVal, maxVal) ==
    IF lines = <<>>
    THEN Prompted(FALSE, 0, <<>>, 0)
    ELSE IF Head(lines).num /\ Head(lines).v >= minVal /\ Head(lines).v <= maxVal
         THEN Prompted(TRUE, Head(lines).v, Tail(lines), 0)
         ELSE [getValidatedIntOn(Tail(lines), minVal, maxVal)
                  EXCEPT !.rejected = @ + 1]

\* getMenuChoice reading the typed lines: the same loop with its own message
RECURSIVE getMenuChoiceOn(_, _, _)
getMenuChoiceOn(lines, minChoice, maxChoice) ==
    IF lines = <<>>
    THEN Prompted(FALSE, 0, <<>>, 0)
    ELSE IF Head(lines).num /\ Head(lines).v >= minChoice /\ Head(lines).v <= maxChoice
         THEN Prompted(TRUE, Head(lines).v, Tail(lines), 0)
         ELSE [getMenuChoiceOn(Tail(lines), minChoice, maxChoice)
                  EXCEPT !.rejected = @ + 1]

\* the values a prompt returns over a set of typed inputs
Returned(typed, minVal, maxVal) ==
    {r.value : r \in {x \in {getValidatedIntOn(l, minVal, maxVal) : l \in typed} :
                        x.returned}}

\* getValidatedInt: the values it can return, whatever was typed before
getValidatedInt(minVal, maxVal) ==
    Returned(TypedLines(TypedTokens(minVal, maxVal)), minVal, maxVal)

\* getEnergyFromUser's switch on the validated choice
energyOf(choice) ==
    CASE choice = 1 -> LOW
      [] choice = 2 -> MEDIUM
      [] choice = 3 -> HIGH
      [] OTHER -> MEDIUM

\* what is typed at the BPM prompt and at the energy prompt of the menu's
\* Add entries: numbers below and above the range, text, and one valid answer
MenuBpmTyped == TypedLines({Num(BPM_MIN - 1), Num(BPM_MAX + 1), NaN, Num(BPM_MAX)})
MenuEnergyTyped == TypedLines({Num(LOW - 1), Num(HIGH + 1), NaN, Num(HIGH)})

\* getEnergyFromUser: the levels it can return over a set of typed inputs
getEnergyFromUser(typed) == {energyOf(c) : c \in Returned(typed, 1, 3)}

\* the answers the prompts of the menu's Add entries return
MenuBpms == Returned(MenuBpmTyped, BPM_MIN, BPM_MAX)
MenuEnergies == getEnergyFromUser(MenuEnergyTyped)

\* mutant of safeIndexFromUser: the upper limit handed to getValidatedInt is size
safeIndexFromUser_uptosize(size) ==
    IF size <= 0 THEN {-1} ELSE getValidatedInt(0, size)

\* safeIndexFromUser: -1 for an empty manager, else a validated index
safeIndexFromUser(size) ==
    IF size <= 0 THEN {-1} ELSE getValidatedInt(0, size - 1)

---------------------------------------------------------------------------
(* The library of Weeks 1-4: Track library[MAX_TRACKS] and its count *)

\* recommendNextTracks recommends within +/- BPM_RANGE
BPM_RANGE == 5

absValue(x) == IF x < 0 THEN -x ELSE x

\* Track library[MAX_TRACKS]: default-constructed Track structs (bpm 0, energy MEDIUM)
Track(genre, bpm, energy) == [genre |-> genre, bpm |-> bpm, energy |-> energy]
EmptyLibrary == [i \in 0..(MAX_TRACKS - 1) |-> Track("", 0, MEDIUM)]

\* what addTrack did: the library, the count and the console lines
Added(lib, count, console) == [library |-> lib, count |-> count, cout |-> console]

\* mutant of addTrack: the test count >= MAX_TRACKS is missing
addTrack_nofull(lib, count, genre, bpm, e) ==
    Added([i \in 0..(IF count >= MAX_TRACKS THEN count ELSE MAX_TRACKS - 1) |->
              IF i = count THEN Track(genre, bpm, e) ELSE lib[i]],
          count + 1, <<Msg("Track added!")>>)

\* addTrack with the answers typed at its prompts
addTrack(lib, count, genre, bpm, e) ==
    IF count >= MAX_TRACKS
    THEN Added(lib, count, <<Msg("Library is full")>>)
    ELSE Added([lib EXCEPT ![count] = Track(genre, bpm, e)], count + 1,
               <<Msg("Track added!")>>)

\* a quotient of two ints computed in double: num / den
Quotient(num, den) == [num |-> num, den |-> den]

\* the loop of computeAverageBPM: sum += library[i].bpm for i < count
RECURSIVE sumBPM(_, _)
sumBPM(lib, count) ==
    IF count <= 0 THEN 0 ELSE sumBPM(lib, count - 1) + lib[count - 1].bpm

\* mutant of computeAverageBPM: the casts are missing, the division is int
computeAverageBPM_intdiv(lib, count) ==
    IF count = 0 THEN Quotient(0, 1) ELSE Quotient(sumBPM(lib, count) \div count, 1)

\* computeAverageBPM: 0.0 for no tracks, else double(sum) / double(count)
computeAverageBPM(lib, count) ==
    IF count = 0 THEN Quotient(0, 1) ELSE Quotient(sumBPM(lib, count), count)

\* countGenreMatches: the tracks among the first count whose genre matches
RECURSIVE countGenreMatches(_, _, _)
countGenreMatches(lib, count, genre) ==
    IF count <= 0
    THEN 0
    ELSE countGenreMatches(lib, count - 1, genre) +
         (IF lib[count - 1].genre = genre THEN 1 ELSE 0)

\* the rows printTrackRow writes for the first count tracks from index i on
RECURSIVE printTrackRows(_, _, _)
printTrackRows(lib, count, i) ==
    IF i < count
    THEN <<Line("track", i, lib[i].bpm)>> \o printTrackRows(lib, count, i + 1)
    ELSE <<>>

\* printLibrary with the genre typed at its prompt
printLibrary(lib, count, checkGenre) ==
    IF count = 0
    THEN <<Msg("No tracks saved yet.")>>
    ELSE <<Msg("LIBRARY (Weeks 1-4)"), Msg("Title Artist Genre Key BPM Energy Notes")>>
         \o printTrackRows(lib, count, 0)
         \o <<Line("Average BPM:", computeAverageBPM(lib, count).num,
                                   computeAverageBPM(lib, count).den),
              Line("Tracks in genre", countGenreMatches(lib, count, checkGenre), 0)>>

\* mutant of suggested: the energy may be any number of steps above
RECURSIVE suggested_anyabove(_, _, _, _, _)
suggested_anyabove(lib, count, i, currentBPM, currentEnergy) ==
    IF i < count
    THEN (IF absValue(lib[i].bpm - currentBPM) <= BPM_RANGE /\
             lib[i].energy >= currentEnergy
          THEN <<Line("suggested", i, lib[i].bpm)>>
          ELSE <<>>)
         \o suggested_anyabove(lib, count, i + 1, currentBPM, currentEnergy)
    ELSE <<>>

\* the loop of recommendNextTracks: one line per track that is close in BPM
\* and whose energy is the current one or currentEnergy + 1
RECURSIVE suggested(_, _, _, _, _)
suggested(lib, count, i, currentBPM, currentEnergy) ==
    IF i < count
    THEN (IF absValue(lib[i].bpm - currentBPM) <= BPM_RANGE /\
             (lib[i].energy = currentEnergy \/ lib[i].energy = currentEnergy + 1)
          THEN <<Line("suggested", i, lib[i].bpm)>>
          ELSE <<>>)
         \o suggested(lib, count, i + 1, currentBPM, currentEnergy)
    ELSE <<>>

\* recommendNextTracks with the answers typed at its prompts; found is true
\* when the loop printed a line
recommendNextTracks(lib, count, currentBPM, currentEnergy) ==
    IF count = 0
    THEN <<Msg("No tracks in library. Add tracks first.")>>
    ELSE <<Msg("--- Recommend Next Tracks ---"), Msg("Suggested tracks")>>
         \o suggested(lib, count, 0, currentBPM, currentEnergy)
         \o (IF suggested(lib, count, 0, currentBPM, currentEnergy) = <<>>
              THEN <<Msg("No close matches found. Try adding more tracks.")>>
              ELSE <<>>)

\* saveReportToFile: opened tells whether the ofstream could open the file
saveReportToFile(lib, count, opened) ==
    IF ~opened
    THEN Report(<<Msg("Could not open file:")>>, <<>>)
    ELSE IF count = 0
         THEN Report(<<Msg("Report saved to")>>,
                     <<Msg("DJ SET ARCHITECT REPORT (Weeks 1-4)"),
                       Line("Tracks stored:", count, 0), Msg(""),
                       Msg("No tracks saved.")>>)
         ELSE Report(<<Msg("Report saved to")>>,
                     <<Msg("DJ SET ARCHITECT REPORT (Weeks 1-4)"),
                       Line("Tracks stored:", count, 0), Msg(""),
                       Msg("Title Artist Genre Key BPM Energy Notes")>>
                     \o printTrackRows(lib, count, 0)
                     \o <<Line("Average BPM:", computeAverageBPM(lib, count).num,
                                               computeAverageBPM(lib, count).den)>>)

\* what is typed at the prompts of menu choices 1, 2 and 3: numbers below
\* and above the range, text, and a few valid answers
LegacyGenres == {"House"}
LegacyBpmTyped ==
    TypedLines({Num(BPM_MIN - 1), Num(BPM_MAX + 1), NaN,
                Num(BPM_MIN), Num(BPM_MIN + BPM_RANGE + 1)})
LegacyEnergyTyped == TypedLines({Num(LOW - 1), Num(HIGH + 1), NaN, Num(HIGH)})
CheckGenres == {"House", "Techno"}
CurrentBpmTyped ==
    TypedLines({Num(BPM_MIN - 1), NaN, Num(BPM_MIN), Num(BPM_MIN + 1),
                Num(BPM_MIN + BPM_RANGE)})
CurrentEnergyTyped == TypedLines(TypedTokens(LOW, HIGH))

\* the answers those prompts return
LegacyBpms == Returned(LegacyBpmTyped, BPM_MIN, BPM_MAX)
LegacyEnergies == getEnergyFromUser(LegacyEnergyTyped)
CurrentBpms == Returned(CurrentBpmTyped, BPM_MIN, BPM_MAX)
CurrentEnergies == getEnergyFromUser(CurrentEnergyTyped)

---------------------------------------------------------------------------
(* The run *)

Call(name, arg, ok, val) == [name |-> name, arg |-> arg, ok |-> ok, val |-> val]
Snapshot ==
    [a |-> a, m |-> m, heap |-> heap, objs |-> objs,
     library |-> library, trackCount |-> trackCount, cin |-> cin]

\* the part of the state a scenario does not use
NoLegacy == library = EmptyLibrary /\ trackCount = 0
NoOutput == cout = <<>> /\ fout = <<>>
NoObjects == objs = <<>>
NoInput == cin = <<>>

InitArray ==
    /\ scenario = "array"
    /\ \E cap \in InitCaps :
          /\ a = DynamicArray(cap)
          /\ op = Call("DynamicArray", cap, TRUE, 0)
    /\ m = TrackManager(2)

InitManager ==
    /\ scenario = "manager"
    /\ \E cap \in InitCaps :
          /\ m = TrackManager(cap)
          /\ op = Call("TrackManager", cap, TRUE, 0)
    /\ a = DynamicArray(2)

InitMain ==
    /\ scenario = "main"
    /\ m = TrackManager(2)
    /\ op = Call("TrackManager", 2, TRUE, 0)
    /\ a = DynamicArray(2)

\* main, seen from its Weeks 1-4 menu entries
InitLegacy ==
    /\ scenario = "legacy"
    /\ m = TrackManager(2)
    /\ op = Call("TrackManager", 2, TRUE, 0)
    /\ a = DynamicArray(2)
    /\ NoLegacy

\* the arrays the Average BPM test cases build: up to MaxCalc tracks
CalcTracks == {Track("House", bpm, e) : bpm \in {100, 110, 130}, e \in {LOW, MEDIUM, HIGH}}
CalcLibraries ==
    {[i \in 0..(MAX_TRACKS - 1) |->
         IF i < Len(q) THEN q[i + 1] ELSE Track("", 0, MEDIUM)] :
       q \in UNION {[1..n -> CalcTracks] : n \in 0..MaxCalc}}

\* the current BPM and energy handed to the recommendation on such an array
CalcCurrentBpms == {104, 105}

InitCalc ==
    /\ scenario = "calc"
    /\ m = TrackManager(2)
    /\ a = DynamicArray(2)
    /\ op = Call("Track", 0, TRUE, 0)
    /\ library \in CalcLibraries
    /\ trackCount \in 0..MaxCalc
    /\ \A i \in 0..(MAX_TRACKS - 1) : i < trackCount <=> library[i].bpm > 0

\* the LocalTrack objects the operator== test cases compare: two titles,
\* two file paths, and BPM, energy and notes that differ from the first
\* object's one at a time
LocalTracks ==
    {TrackObject("LocalTrack", title, f[1], f[2], path, f[3]) :
        title \in {"Song", "Tune"}, path \in {"song.wav", "other.wav"},
        f \in {<<128, HIGH, "x">>, <<100, HIGH, "x">>, <<128, LOW, "x">>,
                <<128, HIGH, "different notes">>}}

InitEquality ==
    /\ scenario = "equality"
    /\ m = TrackManager(2)
    /\ a = DynamicArray(2)
    /\ op = Call("LocalTrack", 0, TRUE, 0)
    /\ objs \in [1..3 -> LocalTracks]

\* DynamicArray<TrackBase*> a(2), used without a TrackManager
InitHandles ==
    /\ scenario = "handles"
    /\ a = DynamicArray(2)
    /\ op = Call("DynamicArray", 2, TRUE, 0)
    /\ m = TrackManager(2)

\* main waiting at one of its prompts, with some lines typed ahead
InitPrompt ==
    /\ m = TrackManager(2)
    /\ a = DynamicArray(2)
    /\ op = Call("TrackManager", 2, TRUE, 0)
    /\ \/ scenario = "menu prompt" /\ cin \in TypedLines(TypedTokens(MENU_MIN, MENU_MAX))
       \/ scenario = "BPM prompt" /\ cin \in TypedLines(TypedTokens(BPM_MIN, BPM_MAX))
       \/ scenario = "energy prompt" /\ cin \in TypedLines(TypedTokens(LOW, HIGH))

Init ==
    /\ alive = TRUE
    /\ heap = <<>>
    /\ nAdd = 0
    /\ nRemoved = 0
    /\ NoOutput
    /\ \/ InitArray /\ NoLegacy /\ NoObjects /\ NoInput
       \/ InitManager /\ NoLegacy /\ NoObjects /\ NoInput
       \/ InitMain /\ NoLegacy /\ NoObjects /\ NoInput
       \/ InitLegacy /\ NoObjects /\ NoInput
       \/ InitCalc /\ NoObjects /\ NoInput
       \/ InitEquality /\ NoLegacy /\ NoInput
       \/ InitHandles /\ NoLegacy /\ NoObjects /\ NoInput
       \/ InitPrompt /\ NoLegacy /\ NoObjects
    /\ pre = [a |-> a, m |-> m, heap |-> heap, objs |-> objs,
              library |-> library, trackCount |-> trackCount, cin |-> cin]

(* DynamicArray<int> a(cap), as in the test case at line 1262 *)

PushBack ==
    /\ scenario = "array" /\ alive
    /\ a.size < MaxSize
    /\ \E v \in Values :
          /\ a' = pushBack(a, v)
          /\ op' = Call("pushBack", v, TRUE, 0)
    /\ pre' = Snapshot
    /\ UNCHANGED objs
    /\ cout' = <<>> /\ fout' = <<>>
    /\ UNCHANGED <<library, trackCount, cin>>
    /\ UNCHANGED <<scenario, alive, m, heap, nAdd, nRemoved>>

RemoveAt ==
    /\ scenario = "array" /\ alive
    /\ \E index \in Indexes(a) :
          LET r == removeAt(a, index)
          IN  /\ a' = r.d
              /\ op' = Call("removeAt", index, r.ret, 0)
    /\ pre' = Snapshot
    /\ UNCHANGED objs
    /\ cout' = <<>> /\ fout' = <<>>
    /\ UNCHANGED <<library, trackCount, cin>>
    /\ UNCHANGED <<scenario, alive, m, heap, nAdd, nRemoved>>

At ==
    /\ scenario = "array" /\ alive
    /\ \E index \in Indexes(a) :
          op' = Call("at", index, TRUE, at(a, index))
    /\ pre' = Snapshot
    /\ UNCHANGED objs
    /\ cout' = <<>> /\ fout' = <<>>
    /\ UNCHANGED <<library, trackCount, cin>>
    /\ UNCHANGED <<scenario, alive, a, m, heap, nAdd, nRemoved>>

ArrayTeardown ==
    /\ scenario = "array" /\ alive
    /\ a' = DynamicArray_dtor(a)
    /\ alive' = FALSE
    /\ op' = Call("~DynamicArray", 0, TRUE, 0)
    /\ pre' = Snapshot
    /\ UNCHANGED objs
    /\ cout' = <<>> /\ fout' = <<>>
    /\ UNCHANGED <<library, trackCount, cin>>
    /\ UNCHANGED <<scenario, m, heap, nAdd, nRemoved>>

(* TrackManager m(cap) *)

Add ==
    /\ scenario = "manager" /\ alive
    /\ Len(heap) < MaxObj
    /\ LET n == new(heap)
       IN  /\ m' = add(m, n.p)
           /\ heap' = n.heap
           /\ op' = Call("add", n.p, TRUE, 0)
    /\ nAdd' = nAdd + 1
    /\ pre' = Snapshot
    /\ objs' = Append(objs, TestTrack(Len(heap) + 1))
    /\ cout' = <<>> /\ fout' = <<>>
    /\ UNCHANGED <<library, trackCount, cin>>
    /\ UNCHANGED <<scenario, alive, a, nRemoved>>

OpPlusEq ==
    /\ scenario = "manager" /\ alive
    /\ Len(heap) < MaxObj
    /\ LET n == new(heap)
       IN  /\ m' = operatorPlusEq(m, n.p)
           /\ heap' = n.heap
           /\ op' = Call("+=", n.p, TRUE, 0)
    /\ nAdd' = nAdd + 1
    /\ pre' = Snapshot
    /\ objs' = Append(objs, TestTrack(Len(heap) + 1))
    /\ cout' = <<>> /\ fout' = <<>>
    /\ UNCHANGED <<library, trackCount, cin>>
    /\ UNCHANGED <<scenario, alive, a, nRemoved>>

ManagerRemoveAt ==
    /\ scenario = "manager" /\ alive
    /\ \E index \in Indexes(m.items) :
          LET r == TrackManager_removeAt(m, heap, index)
          IN  /\ m' = r.m
              /\ heap' = r.heap
              /\ op' = Call("removeAt", index, r.ret, 0)
              /\ nRemoved' = IF r.ret THEN nRemoved + 1 ELSE nRemoved
    /\ pre' = Snapshot
    /\ UNCHANGED objs
    /\ cout' = <<>> /\ fout' = <<>>
    /\ UNCHANGED <<library, trackCount, cin>>
    /\ UNCHANGED <<scenario, alive, a, nAdd>>

OpMinusEq ==
    /\ scenario = "manager" /\ alive
    /\ \E index \in Indexes(m.items) :
          LET r == operatorMinusEq(m, heap, index)
          IN  /\ m' = r.m
              /\ heap' = r.heap
              /\ op' = Call("-=", index, TRUE, 0)
              /\ nRemoved' = IF TrackManager_removeAt(m, heap, index).ret
                             THEN nRemoved + 1 ELSE nRemoved
    /\ pre' = Snapshot
    /\ UNCHANGED objs
    /\ cout' = <<>> /\ fout' = <<>>
    /\ UNCHANGED <<library, trackCount, cin>>
    /\ UNCHANGED <<scenario, alive, a, nAdd>>

\* manager.printAll(cout)
PrintAll ==
    /\ scenario = "manager" /\ alive
    /\ cout' = printAll(m)
    /\ fout' = <<>>
    /\ op' = Call("printAll", 0, TRUE, 0)
    /\ pre' = Snapshot
    /\ UNCHANGED <<scenario, alive, a, m, heap, nAdd, nRemoved, objs,
                   library, trackCount, cin>>

\* manager.saveReport(filename)
SaveReport ==
    /\ scenario = "manager" /\ alive
    /\ \E opened \in BOOLEAN :
          LET r == saveReport(m, opened)
          IN  /\ cout' = r.cout
              /\ fout' = r.fout
              /\ op' = Call("saveReport", 0, opened, 0)
    /\ pre' = Snapshot
    /\ UNCHANGED <<scenario, alive, a, m, heap, nAdd, nRemoved, objs,
                   library, trackCount, cin>>

OpIndex ==
    /\ scenario = "manager" /\ alive
    /\ \E index \in Indexes(m.items) :
          op' = Call("[]", index, TRUE, operatorIndex(m, index))
    /\ pre' = Snapshot
    /\ UNCHANGED objs
    /\ cout' = <<>> /\ fout' = <<>>
    /\ UNCHANGED <<library, trackCount, cin>>
    /\ UNCHANGED <<scenario, alive, a, m, heap, nAdd, nRemoved>>

Teardown ==
    /\ scenario = "manager" /\ alive
    /\ LET r == TrackManager_dtor(m, heap)
       IN  /\ m' = r.m
           /\ heap' = r.heap
    /\ alive' = FALSE
    /\ op' = Call("~TrackManager", 0, TRUE, 0)
    /\ pre' = Snapshot
    /\ UNCHANGED objs
    /\ cout' = <<>> /\ fout' = <<>>
    /\ UNCHANGED <<library, trackCount, cin>>
    /\ UNCHANGED <<scenario, a, nAdd, nRemoved>>

(* main: TrackManager manager(2), then the menu loop; the choices that act on  *)
(* the manager.  getMenuChoice returns only a choice in MENU_MIN..MENU_MAX.     *)

\* choices 5 and 6: manager += new LocalTrack(...) / new StreamTrack(...)
MenuAddTrack ==
    /\ scenario = "main" /\ alive
    /\ Len(heap) < MaxObj
    /\ \E choice \in {5, 6}, bpm \in MenuBpms, e \in MenuEnergies :
          LET n == new(heap)
          IN  /\ m' = operatorPlusEq(m, n.p)
              /\ heap' = n.heap
              /\ objs' = Append(objs,
                     IF choice = 5
                     THEN TrackObject("LocalTrack", "A", bpm, e, "a.wav", "note")
                     ELSE TrackObject("StreamTrack", "B", bpm, e, "Spotify", "note"))
              /\ op' = Call("+=", n.p, TRUE, choice)
              /\ cout' = <<Msg(IF choice = 5 THEN "Local track added (Week 6)."
                                             ELSE "Stream track added (Week 6).")>>
    /\ fout' = <<>>
    /\ nAdd' = nAdd + 1
    /\ pre' = Snapshot
    /\ UNCHANGED <<library, trackCount, cin>>
    /\ UNCHANGED <<scenario, alive, a, nRemoved>>

\* choice 7: printAll, then the one-line summary of manager[0] when there is one
MenuView ==
    /\ scenario = "main" /\ alive
    /\ cout' = printAll(m) \o
                (IF getSize(m) > 0 /\ operatorIndex(m, 0) # nullptr
                 THEN <<Line("One-line summary (operator<<):", 0, operatorIndex(m, 0))>>
                 ELSE <<>>)
    /\ fout' = <<>>
    /\ op' = Call("printAll", 0, TRUE, 7)
    /\ pre' = Snapshot
    /\ UNCHANGED <<scenario, alive, a, m, heap, nAdd, nRemoved, objs,
                   library, trackCount, cin>>

\* choice 9: manager.saveReport("DJ_Set_Report_Week6.txt")
MenuSaveReport ==
    /\ scenario = "main" /\ alive
    /\ \E opened \in BOOLEAN :
          LET r == saveReport(m, opened)
          IN  /\ cout' = r.cout
              /\ fout' = r.fout
              /\ op' = Call("saveReport", 0, opened, 9)
    /\ pre' = Snapshot
    /\ UNCHANGED <<scenario, alive, a, m, heap, nAdd, nRemoved, objs,
                   library, trackCount, cin>>

\* choice 8: nothing on an empty manager, else manager -= safeIndexFromUser(...)
MenuRemove ==
    /\ scenario = "main" /\ alive
    /\ IF getSize(m) = 0
       THEN /\ op' = Call("Nothing to remove", 0, TRUE, 8)
            /\ UNCHANGED <<m, heap, nRemoved>>
       ELSE \E idx \in safeIndexFromUser(getSize(m)) :
               LET r == operatorMinusEq(m, heap, idx)
               IN  /\ m' = r.m
                   /\ heap' = r.heap
                   /\ op' = Call("-=", idx, TRUE, 8)
                   /\ nRemoved' = IF TrackManager_removeAt(m, heap, idx).ret
                                  THEN nRemoved + 1 ELSE nRemoved
    /\ pre' = Snapshot
    /\ UNCHANGED objs
    /\ cout' = (IF getSize(m) = 0
                THEN <<Msg("Nothing to remove.")>>
                ELSE printAll(m) \o <<Msg("Remove attempted at index")>>)
    /\ fout' = <<>>
    /\ UNCHANGED <<library, trackCount, cin>>
    /\ UNCHANGED <<scenario, alive, a, nAdd>>

\* choice 10: the loop ends, main returns and manager is destroyed
MenuQuit ==
    /\ scenario = "main" /\ alive
    /\ LET r == TrackManager_dtor(m, heap)
       IN  /\ m' = r.m
           /\ heap' = r.heap
    /\ alive' = FALSE
    /\ op' = Call("~TrackManager", 0, TRUE, 10)
    /\ pre' = Snapshot
    /\ UNCHANGED objs
    /\ cout' = <<Msg("Goodbye")>> /\ fout' = <<>>
    /\ UNCHANGED <<library, trackCount, cin>>
    /\ UNCHANGED <<scenario, a, nAdd, nRemoved>>

\* choice 1: addTrack(library, trackCount)
MenuAddLegacy ==
    /\ scenario = "legacy" /\ alive
    /\ \E genre \in LegacyGenres, bpm \in LegacyBpms, e \in LegacyEnergies :
          LET r == addTrack(library, trackCount, genre, bpm, e)
          IN  /\ library' = r.library
              /\ trackCount' = r.count
              /\ cout' = r.cout
              /\ op' = Call("addTrack", bpm, r.count # trackCount, 1)
    /\ fout' = <<>>
    /\ pre' = Snapshot
    /\ UNCHANGED <<scenario, alive, a, m, heap, nAdd, nRemoved, objs, cin>>

\* choice 2: printLibrary(library, trackCount)
MenuPrintLibrary ==
    /\ scenario = "legacy" /\ alive
    /\ \E checkGenre \in CheckGenres :
          cout' = printLibrary(library, trackCount, checkGenre)
    /\ fout' = <<>>
    /\ op' = Call("printLibrary", 0, TRUE, 2)
    /\ pre' = Snapshot
    /\ UNCHANGED <<scenario, alive, a, m, heap, nAdd, nRemoved, objs,
                   library, trackCount, cin>>

\* choice 3: recommendNextTracks(library, trackCount)
MenuRecommend ==
    /\ scenario = "legacy" /\ alive
    /\ \E currentBPM \in CurrentBpms, currentEnergy \in CurrentEnergies :
          /\ cout' = recommendNextTracks(library, trackCount, currentBPM, currentEnergy)
          /\ op' = Call("recommendNextTracks", currentBPM, TRUE, currentEnergy)
    /\ fout' = <<>>
    /\ pre' = Snapshot
    /\ UNCHANGED <<scenario, alive, a, m, heap, nAdd, nRemoved, objs,
                   library, trackCount, cin>>

\* choice 4: saveReportToFile(library, trackCount, "DJ_Set_Report.txt")
MenuSaveLegacy ==
    /\ scenario = "legacy" /\ alive
    /\ \E opened \in BOOLEAN :
          LET r == saveReportToFile(library, trackCount, opened)
          IN  /\ cout' = r.cout
              /\ fout' = r.fout
              /\ op' = Call("saveReportToFile", 0, opened, 4)
    /\ pre' = Snapshot
    /\ UNCHANGED <<scenario, alive, a, m, heap, nAdd, nRemoved, objs,
                   library, trackCount, cin>>

\* computeAverageBPM(lib, count) called on an array, as the test cases do;
\* the call record carries the returned quotient as arg / val
ComputeAverageBPM ==
    /\ scenario = "calc" /\ alive
    /\ op' = Call("computeAverageBPM", computeAverageBPM(library, trackCount).num,
                  TRUE, computeAverageBPM(library, trackCount).den)
    /\ cout' = <<>> /\ fout' = <<>>
    /\ pre' = Snapshot
    /\ UNCHANGED <<scenario, alive, a, m, heap, nAdd, nRemoved, objs,
                   library, trackCount, cin>>

\* n times the message a prompt prints when it rejects a line
Rejections(message, n) == [k \in 1..n |-> Msg(message)]

\* choice = getMenuChoice(MENU_MIN, MENU_MAX) on what is typed: it returns, or
\* it has read every line and is still prompting
GetMenuChoice ==
    /\ scenario = "menu prompt" /\ alive
    /\ LET r == getMenuChoiceOn(cin, MENU_MIN, MENU_MAX)
       IN  /\ cin' = r.cin
           /\ cout' = Rejections("Invalid menu choice. Try again.", r.rejected)
           /\ op' = Call("getMenuChoice", r.rejected, r.returned, r.value)
    /\ fout' = <<>>
    /\ pre' = Snapshot
    /\ UNCHANGED <<scenario, alive, a, m, heap, nAdd, nRemoved, objs,
                   library, trackCount>>

\* bpm = getValidatedInt("BPM (60-200): ", BPM_MIN, BPM_MAX) on what is typed
GetValidatedInt ==
    /\ scenario = "BPM prompt" /\ alive
    /\ LET r == getValidatedIntOn(cin, BPM_MIN, BPM_MAX)
       IN  /\ cin' = r.cin
           /\ cout' = Rejections("Invalid number. Enter", r.rejected)
           /\ op' = Call("getValidatedInt", r.rejected, r.returned, r.value)
    /\ fout' = <<>>
    /\ pre' = Snapshot
    /\ UNCHANGED <<scenario, alive, a, m, heap, nAdd, nRemoved, objs,
                   library, trackCount>>

\* e = getEnergyFromUser() on what is typed
GetEnergyFromUser ==
    /\ scenario = "energy prompt" /\ alive
    /\ LET r == getValidatedIntOn(cin, 1, 3)
       IN  /\ cin' = r.cin
           /\ cout' = Rejections("Invalid number. Enter", r.rejected)
           /\ op' = Call("getEnergyFromUser", r.rejected, r.returned,
                         IF r.returned THEN energyOf(r.value) ELSE 0)
    /\ fout' = <<>>
    /\ pre' = Snapshot
    /\ UNCHANGED <<scenario, alive, a, m, heap, nAdd, nRemoved, objs,
                   library, trackCount>>

(* DynamicArray<TrackBase*> a(2), as in the test case at line 1287 *)

\* p = new ...; a.pushBack(p)
HandlesPushBack ==
    /\ scenario = "handles" /\ alive
    /\ Len(heap) < MaxHandles
    /\ LET n == new(heap)
       IN  /\ a' = pushBack(a, n.p)
           /\ heap' = afterResize(n.heap, a, pushBack(a, n.p))
           /\ op' = Call("pushBack", n.p, TRUE, 0)
    /\ objs' = Append(objs, TestTrack(Len(heap) + 1))
    /\ cout' = <<>> /\ fout' = <<>>
    /\ pre' = Snapshot
    /\ UNCHANGED <<scenario, alive, m, nAdd, nRemoved, library, trackCount, cin>>

\* a.removeAt(index)
HandlesRemoveAt ==
    /\ scenario = "handles" /\ alive
    /\ \E index \in Indexes(a) :
          LET r == removeAt(a, index)
          IN  /\ a' = r.d
              /\ heap' = afterResize(heap, a, r.d)
              /\ op' = Call("removeAt", index, r.ret, 0)
    /\ cout' = <<>> /\ fout' = <<>>
    /\ pre' = Snapshot
    /\ UNCHANGED <<scenario, alive, m, nAdd, nRemoved, objs, library, trackCount, cin>>

\* a.at(index)
HandlesAt ==
    /\ scenario = "handles" /\ alive
    /\ \E index \in Indexes(a) \cup {99} :
          op' = Call("at", index, TRUE, at(a, index))
    /\ cout' = <<>> /\ fout' = <<>>
    /\ pre' = Snapshot
    /\ UNCHANGED <<scenario, alive, a, m, heap, nAdd, nRemoved, objs,
                   library, trackCount, cin>>

\* delete p by the code that allocated p: the container does not own it
HandlesDelete ==
    /\ scenario = "handles"
    /\ \E p \in 1..Len(heap) :
          /\ heap[p] = 0
          /\ heap' = delete(heap, p)
          /\ op' = Call("delete", p, TRUE, 0)
    /\ cout' = <<>> /\ fout' = <<>>
    /\ pre' = Snapshot
    /\ UNCHANGED <<scenario, alive, a, m, nAdd, nRemoved, objs,
                   library, trackCount, cin>>

\* a goes out of scope: ~DynamicArray runs delete[] items
HandlesTeardown ==
    /\ scenario = "handles" /\ alive
    /\ a' = DynamicArray_dtor(a)
    /\ heap' = deleteArray(heap, a)
    /\ alive' = FALSE
    /\ op' = Call("~DynamicArray", 0, TRUE, 0)
    /\ cout' = <<>> /\ fout' = <<>>
    /\ pre' = Snapshot
    /\ UNCHANGED <<scenario, m, nAdd, nRemoved, objs, library, trackCount, cin>>

\* x == y for two of the three objects; the call record names them
Equal ==
    /\ scenario = "equality" /\ alive
    /\ \E i, j \in 1..3 : op' = Call("==", i, operatorEq(objs[i], objs[j]), j)
    /\ cout' = <<>> /\ fout' = <<>>
    /\ pre' = Snapshot
    /\ UNCHANGED <<scenario, alive, a, m, heap, nAdd, nRemoved, objs,
                   library, trackCount, cin>>

\* recommendNextTracks(lib, count) on such an array
RecommendNextTracks ==
    /\ scenario = "calc" /\ alive
    /\ \E currentBPM \in CalcCurrentBpms, currentEnergy \in {LOW, MEDIUM, HIGH} :
          /\ cout' = recommendNextTracks(library, trackCount, currentBPM, currentEnergy)
          /\ op' = Call("recommendNextTracks", currentBPM, TRUE, currentEnergy)
    /\ fout' = <<>>
    /\ pre' = Snapshot
    /\ UNCHANGED <<scenario, alive, a, m, heap, nAdd, nRemoved, objs,
                   library, trackCount, cin>>

Next ==
    \/ PushBack
    \/ RemoveAt
    \/ At
    \/ ArrayTeardown
    \/ Add
    \/ OpPlusEq
    \/ ManagerRemoveAt
    \/ OpMinusEq
    \/ OpIndex
    \/ PrintAll
    \/ SaveReport
    \/ Teardown
    \/ MenuView
    \/ MenuSaveReport
    \/ MenuAddTrack
    \/ MenuRemove
    \/ MenuQuit
    \/ MenuAddLegacy
    \/ MenuPrintLibrary
    \/ MenuRecommend
    \/ MenuSaveLegacy
    \/ ComputeAverageBPM
    \/ RecommendNextTracks
    \/ Equal
    \/ HandlesPushBack
    \/ HandlesRemoveAt
    \/ HandlesAt
    \/ HandlesDelete
    \/ HandlesTeardown
    \/ GetMenuChoice
    \/ GetValidatedInt
    \/ GetEnergyFromUser

Spec == Init /\ [][Next]_vars

---------------------------------------------------------------------------
(* Vocabulary of the properties *)

ValidIndex(d, i) == 0 <= i /\ i < d.size

\* the elements at indices [0, size), in order
Contents(d) == [k \in 0..(d.size - 1) |-> d.items[k]]

\* before with the element at index i taken out, the rest in order
Without(before, i) ==
    [k \in 0..(before.size - 2) |->
        IF k < i THEN before.items[k] ELSE before.items[k + 1]]

\* the container the last call acted on, before and after it
Before == IF scenario \in {"array", "handles"} THEN pre.a ELSE pre.m.items
After == IF scenario \in {"array", "handles"} THEN a ELSE m.items

OnManager == scenario \in {"manager", "main"}

IsRemove == op.name = "removeAt"
IsAppend == op.name \in {"pushBack", "add", "+="}
IsConstruct == op.name \in {"DynamicArray", "TrackManager"}

\* the objects whose handles the manager held before the last call
Owned(mm) == {mm.items.items[k] : k \in 0..(mm.items.size - 1)}

---------------------------------------------------------------------------
(* C1: DynamicArray.removeAt(i) with 0 <= i < size returns true, reduces   *)
(* size by exactly 1, leaves the elements at indices < i in place and      *)
(* moves every element at an index j > i to j-1, also when the removal     *)
(* triggers a shrink reallocation (DynamicArray<int>, and the              *)
(* DynamicArray<TrackBase*> inside a TrackManager).                        *)
C1_RemoveAtClosesGap ==
    (IsRemove /\ ValidIndex(Before, op.arg)) =>
        /\ op.ok = TRUE
        /\ After.size = Before.size - 1
        /\ \A j \in 0..(op.arg - 1) : After.items[j] = Before.items[j]
        /\ \A j \in (op.arg + 1)..(Before.size - 1) : After.items[j - 1] = Before.items[j]
        /\ Contents(After) = Without(Before, op.arg)

\* a removal from the middle, differing neighbours closing up, that also halved the store
C1_Witness ==
    /\ scenario = "array" /\ IsRemove /\ op.ok
    /\ op.arg > 0 /\ op.arg < a.size
    /\ a.items[op.arg] # a.items[op.arg - 1]
    /\ a.capacity < pre.a.capacity

(* C2: DynamicArray.removeAt(i) with i < 0 or i >= size returns false and  *)
(* leaves size, capacity and the contents at [0, size) unchanged.          *)
C2_RemoveAtInvalidNoEffect ==
    (scenario = "array" /\ IsRemove /\ ~ValidIndex(pre.a, op.arg)) =>
        /\ op.ok = FALSE
        /\ a.size = pre.a.size
        /\ a.capacity = pre.a.capacity
        /\ Contents(a) = Contents(pre.a)

\* an index just past the last element, still inside the allocated store
C2_Witness ==
    /\ scenario = "array" /\ IsRemove
    /\ pre.a.size > 0
    /\ op.arg = pre.a.size /\ op.arg < pre.a.capacity

(* C3: TrackManager.removeAt(i): outside [0, size) it returns false and    *)
(* nothing changes; inside it returns true, destroys exactly the object    *)
(* whose handle was at index i and removes that slot, the remaining        *)
(* handles keeping their order, size reduced by 1.                         *)
C3_ManagerRemoveAt ==
    (OnManager /\ IsRemove) =>
        IF ValidIndex(pre.m.items, op.arg)
        THEN /\ op.ok = TRUE
             /\ heap = [pre.heap EXCEPT ![pre.m.items.items[op.arg]] = @ + 1]
             /\ m.items.size = pre.m.items.size - 1
             /\ Contents(m.items) = Without(pre.m.items, op.arg)
        ELSE /\ op.ok = FALSE
             /\ heap = pre.heap
             /\ m = pre.m

\* a removal from the middle of three or more handles
C3_Witness ==
    /\ scenario = "manager" /\ IsRemove /\ op.ok
    /\ op.arg > 0 /\ op.arg < m.items.size

(* C4: whatever adds, removals and teardown happen, no track object is     *)
(* destroyed more than once, and before teardown every handle at an index  *)
(* in [0, size) refers to an object that has not been destroyed.           *)
C4_NoDoubleFreeNoDangling ==
    OnManager =>
        /\ \A o \in 1..Len(heap) : heap[o] <= 1
        /\ alive => \A k \in 0..(m.items.size - 1) :
                        /\ m.items.items[k] \in 1..Len(heap)
                        /\ heap[m.items.items[k]] = 0

\* a live manager whose store still holds, above size, the handle of a destroyed object
C4_Witness ==
    /\ scenario = "manager" /\ alive
    /\ m.items.size >= 1
    /\ \E k \in m.items.size..(m.items.capacity - 1) :
          /\ m.items.items[k] \in 1..Len(heap)
          /\ heap[m.items.items[k]] = 1

(* C5: teardown destroys every object added and not yet removed exactly    *)
(* once, so after teardown every object ever handed to add has been        *)
(* destroyed exactly once.                                                 *)
C5_TeardownFreesAll ==
    (OnManager /\ ~alive) =>
        /\ \A o \in 1..Len(heap) : heap[o] = 1
        /\ \A o \in 1..Len(heap) :
              heap[o] - pre.heap[o] = (IF o \in Owned(pre.m) THEN 1 ELSE 0)

\* main has returned after choice 10; its manager had grown, had a removal, and
\* still owned two or more objects
C5_Witness ==
    /\ scenario = "main" /\ ~alive
    /\ pre.m.items.size >= 2
    /\ nRemoved >= 1
    /\ pre.m.items.capacity >= 4

(* C6: growth policy: a container constructed with requested capacity c    *)
(* has size 0 and capacity max(c, 2); pushBack with size < capacity leaves *)
(* the capacity unchanged; pushBack with size = capacity makes the         *)
(* capacity exactly twice its prior value.                                 *)
C6_GrowthPolicy ==
    /\ IsConstruct =>
          /\ After.size = 0
          /\ After.capacity = (IF op.arg > 2 THEN op.arg ELSE 2)
    /\ (IsAppend /\ Before.size < Before.capacity) =>
          After.capacity = Before.capacity
    /\ (IsAppend /\ Before.size = Before.capacity) =>
          After.capacity = 2 * Before.capacity

\* an append to a full store of odd capacity
C6_Witness ==
    /\ IsAppend
    /\ Before.size = Before.capacity
    /\ Before.capacity = 3
    /\ After.capacity = 6

(* C7 as stated: after a successful removeAt, if the resulting size is     *)
(* <= one quarter of the capacity and the capacity is > 2 the capacity is  *)
(* halved, otherwise it is unchanged.                                      *)
C7_ShrinkPolicyAsStated ==
    (IsRemove /\ op.ok) =>
        After.capacity =
            (IF 4 * After.size <= Before.capacity /\ Before.capacity > 2
             THEN Before.capacity \div 2
             ELSE Before.capacity)

(* C7 amended: after a successful removeAt, if the resulting size is > 0   *)
(* and <= one quarter of the capacity and the capacity is > 2 the capacity *)
(* is halved (integer division), otherwise it is unchanged; in particular  *)
(* removing the last element never shrinks the store.                      *)
C7_ShrinkPolicy ==
    (IsRemove /\ op.ok) =>
        After.capacity =
            (IF After.size > 0 /\ 4 * After.size <= Before.capacity /\ Before.capacity > 2
             THEN Before.capacity \div 2
             ELSE Before.capacity)

\* the last element removed from a store of capacity 4 or more: no shrink
C7_Witness ==
    /\ IsRemove /\ op.ok
    /\ After.size = 0
    /\ Before.capacity >= 4
    /\ After.capacity = Before.capacity

(* C8: indexed access never fails: DynamicArray.at(i) and TrackManager     *)
(* operator[](i) return the element stored at i when 0 <= i < size and the *)
(* sentinel (0 for int, the null handle) for every other i, slots below    *)
(* the capacity included, and change no state.                             *)
C8_IndexedAccess ==
    /\ (scenario = "array" /\ op.name = "at") =>
          /\ op.val = (IF ValidIndex(a, op.arg) THEN a.items[op.arg] ELSE 0)
          /\ a = pre.a
    /\ (scenario = "manager" /\ op.name = "[]") =>
          /\ op.val = (IF ValidIndex(m.items, op.arg) THEN m.items.items[op.arg] ELSE 0)
          /\ m = pre.m
          /\ heap = pre.heap

\* operator[] at a slot above size that still holds the handle of a removed object
C8_Witness ==
    /\ scenario = "manager" /\ op.name = "[]"
    /\ op.arg >= m.items.size /\ op.arg < m.items.capacity
    /\ m.items.items[op.arg] \in 1..Len(heap)
    /\ op.val = 0

(* C9: m += p leaves the manager in the state m.add(p) leaves it in, and   *)
(* m -= i in the state m.removeAt(i) leaves it in, for every index i,      *)
(* valid or not (size, capacity, stored handles, destroyed objects).       *)
C9_OperatorsEquivalent ==
    /\ op.name = "+=" =>
          /\ m = add(pre.m, op.arg)
          /\ heap = new(pre.heap).heap
    /\ op.name = "-=" =>
          /\ m = TrackManager_removeAt(pre.m, pre.heap, op.arg).m
          /\ heap = TrackManager_removeAt(pre.m, pre.heap, op.arg).heap

\* m -= i with a valid index: an object was destroyed
C9_Witness ==
    /\ op.name = "-="
    /\ ValidIndex(pre.m.items, op.arg)
    /\ heap # pre.heap
    /\ m.items.size = pre.m.items.size - 1

(* C10: size accounting of the manager: constructed with capacity 2 it has *)
(* size 0 and capacity 2; after any sequence of add and removeAt its size  *)
(* is the number of adds minus the number of removeAt that returned true;  *)
(* three adds give size 3 with capacity >= 3 and a following removeAt(1)   *)
(* gives size 2.                                                           *)
C10_SizeAccounting ==
    (OnManager /\ alive) =>
        /\ (op.name = "TrackManager" /\ op.arg = 2) =>
              (getSize(m) = 0 /\ getCapacity(m) = 2)
        /\ getSize(m) = nAdd - nRemoved
        /\ (nAdd = 3 /\ nRemoved = 0) =>
              (getSize(m) = 3 /\ getCapacity(m) >= 3)
        /\ (nAdd = 3 /\ nRemoved = 1 /\ IsRemove /\ op.arg = 1 /\ op.ok) =>
              getSize(m) = 2

\* three adds, then removeAt(1)
C10_Witness ==
    /\ scenario = "manager" /\ alive
    /\ nAdd = 3 /\ nRemoved = 1
    /\ IsRemove /\ op.arg = 1 /\ op.ok
    /\ getSize(m) = 2

---------------------------------------------------------------------------
\* the table rows among printed lines
IsRow(l) == l.kind = "row"
Rows(out) == SelectSeq(out, IsRow)
HasLine(out, kind) == \E k \in 1..Len(out) : out[k].kind = kind

(* C11: printAll on an empty manager prints only "No tracks stored yet."   *)
(* and no table; on a non-empty manager it prints exactly one row per      *)
(* stored entry, in insertion order, each row prefixed with the entry's    *)
(* current index 0..size-1; it changes nothing in the manager.             *)
C11_PrintAll ==
    op.name = "printAll" =>
        /\ m = pre.m /\ heap = pre.heap /\ objs = pre.objs
        /\ getSize(m) = 0 => cout = <<Msg("No tracks stored yet.")>>
        /\ getSize(m) > 0 =>
              /\ ~HasLine(cout, "No tracks stored yet.")
              /\ Len(Rows(cout)) = getSize(m)
              /\ \A k \in 1..Len(Rows(cout)) :
                    /\ Rows(cout)[k].idx = k - 1
                    /\ Rows(cout)[k].p = m.items.items[k - 1]
              /\ \A j, k \in 1..Len(Rows(cout)) :
                    j < k => Rows(cout)[j].p < Rows(cout)[k].p

\* a listing of at least two entries after a removal moved the indices
C11_Witness ==
    /\ op.name = "printAll"
    /\ getSize(m) >= 2
    /\ nRemoved > 0
    /\ m.items.items[0] # 1
    /\ Len(Rows(cout)) = getSize(m)

(* C12: when saveReport or the legacy saveReportToFile cannot open its     *)
(* file, the failure is reported on the console, nothing is written, the   *)
(* manager (size, capacity, entries), the objects, the legacy library and  *)
(* its track count are unchanged, nothing is destroyed, and the program    *)
(* goes on with its menu.                                                  *)
C12_ReportOpenFailure ==
    (op.name \in {"saveReport", "saveReportToFile"} /\ ~op.ok) =>
        /\ cout = <<Msg("Could not open file:")>>
        /\ fout = <<>>
        /\ m = pre.m /\ heap = pre.heap /\ objs = pre.objs
        /\ library = pre.library /\ trackCount = pre.trackCount
        /\ alive

\* a failed report of a manager that holds tracks
C12_Witness ==
    /\ op.name = "saveReport" /\ ~op.ok
    /\ getSize(m) >= 2
    /\ cout = <<Msg("Could not open file:")>>

\* a failed legacy report of a library that holds tracks
C12_WitnessLegacy ==
    /\ op.name = "saveReportToFile" /\ ~op.ok
    /\ trackCount >= 2

(* C13: a == b on two LocalTrack objects holds exactly when their titles   *)
(* and their file paths are equal, whatever their BPM, energy and notes;   *)
(* the relation is reflexive, symmetric and transitive.                    *)
C13_LocalTrackEquality ==
    /\ op.name = "==" =>
          op.ok = (objs[op.arg].title = objs[op.val].title /\
                   objs[op.arg].source = objs[op.val].source)
    /\ scenario = "equality" =>
          /\ \A i \in 1..3 : operatorEq(objs[i], objs[i])
          /\ \A i, j \in 1..3 : operatorEq(objs[i], objs[j]) => operatorEq(objs[j], objs[i])
          /\ \A i, j, k \in 1..3 :
                (operatorEq(objs[i], objs[j]) /\ operatorEq(objs[j], objs[k]))
                   => operatorEq(objs[i], objs[k])

\* two distinct objects that differ in BPM, energy or notes compare equal,
\* while the third shares only the title with them and is unequal to both
C13_Witness ==
    /\ op.name = "==" /\ op.arg = 1 /\ op.val = 2 /\ op.ok
    /\ objs[1] # objs[2]
    /\ objs[3].title = objs[1].title
    /\ ~operatorEq(objs[2], objs[3])

\* the BPM values of the first count tracks, added up from the front
RECURSIVE TotalFrom(_, _, _)
TotalFrom(lib, count, i) ==
    IF i >= count THEN 0 ELSE lib[i].bpm + TotalFrom(lib, count, i + 1)

(* C14: computeAverageBPM(library, count) returns 0 when count is 0 and    *)
(* otherwise the sum of the BPM values of the first count tracks divided   *)
(* by count, so that result * count is that sum; BPMs [100, 110, 130] give *)
(* 340/3. The returned quotient is op.arg / op.val.                        *)
C14_AverageBPM ==
    op.name = "computeAverageBPM" =>
        /\ op.val > 0
        /\ trackCount = 0 => op.arg = 0
        /\ trackCount > 0 =>
              op.arg * trackCount = TotalFrom(library, trackCount, 0) * op.val
        /\ (trackCount = 3 /\ library[0].bpm = 100 /\ library[1].bpm = 110
                           /\ library[2].bpm = 130) =>
              op.arg * 3 = 340 * op.val
        /\ library = pre.library /\ trackCount = pre.trackCount

\* the average of [100, 110, 130]
C14_Witness ==
    /\ op.name = "computeAverageBPM"
    /\ trackCount = 3
    /\ library[0].bpm = 100 /\ library[1].bpm = 110 /\ library[2].bpm = 130
    /\ op.arg = 340 /\ op.val = 3

\* the average of no tracks
C14_WitnessEmpty ==
    /\ op.name = "computeAverageBPM"
    /\ trackCount = 0
    /\ op.arg = 0

(* C15: after DynamicArray.pushBack(v) or TrackManager.add(p) the size has *)
(* grown by exactly 1, the new value is at index size-1, and every element *)
(* that was at an index k < old size is still at index k, also when the    *)
(* append doubles the capacity.                                            *)
C15_AppendKeepsContent ==
    IsAppend =>
        /\ After.size = Before.size + 1
        /\ After.items[After.size - 1] = op.arg
        /\ \A k \in 0..(Before.size - 1) : After.items[k] = Before.items[k]

\* an append that doubled the capacity of a store with two different elements
C15_Witness ==
    /\ IsAppend
    /\ Before.size >= 2
    /\ After.capacity = 2 * Before.capacity
    /\ Before.items[0] # Before.items[Before.size - 1]
    /\ After.items[Before.size - 1] = Before.items[Before.size - 1]

(* C16: in every state reached by construction, pushBack and removeAt on a *)
(* DynamicArray, and by add and removeAt on a TrackManager, 0 <= size <=   *)
(* capacity and capacity >= 2 hold: no grow or shrink step sets the        *)
(* capacity below the size or below 2.                                     *)
C16_SizeWithinCapacity ==
    /\ 0 <= a.size /\ a.size <= a.capacity /\ a.capacity >= 2
    /\ 0 <= m.items.size /\ m.items.size <= m.items.capacity
    /\ m.items.capacity >= 2

\* a removal that shrank a store of capacity 4 or 5 to capacity 2
C16_Witness ==
    /\ IsRemove /\ op.ok
    /\ Before.capacity \in {4, 5}
    /\ After.capacity = 2
    /\ After.size = 1

\* the objects whose destructor has run a different number of times than
\* before the last call
Touched == {o \in 1..Len(pre.heap) : heap[o] # pre.heap[o]}

(* C17: the generic container never destroys what its handle entries refer *)
(* to: pushBack, removeAt, resize and teardown of a DynamicArray<handle>   *)
(* change only the stored handles, the size and the capacity and leave     *)
(* every track object as live or destroyed as it was; objects are          *)
(* destroyed only by TrackManager's removeAt and teardown (and, for a      *)
(* container used without a manager, by the code that allocated them).     *)
C17_ContainerNeverDestroys ==
    /\ (scenario = "handles" /\ op.name # "delete") =>
          /\ Touched = {}
          /\ \A o \in (Len(pre.heap) + 1)..Len(heap) : heap[o] = 0
          /\ m = pre.m /\ objs \in {pre.objs} \cup {Append(pre.objs, TestTrack(Len(heap)))}
    /\ (OnManager /\ Touched # {}) => op.name \in {"removeAt", "-=", "~TrackManager"}
    /\ (OnManager /\ IsAppend) => heap[op.arg] = 0

\* a removal from a DynamicArray<handle> that shrank the store: the old
\* store was released, the removed handle's object and the others are live
C17_Witness ==
    /\ scenario = "handles"
    /\ IsRemove /\ op.ok
    /\ a.capacity < pre.a.capacity
    /\ heap[pre.a.items[op.arg]] = 0
    /\ \A o \in 1..Len(heap) : heap[o] = 0

\* the teardown of a DynamicArray<handle> that still held handles of live
\* objects
C17_WitnessTeardown ==
    /\ scenario = "handles"
    /\ op.name = "~DynamicArray"
    /\ pre.a.size >= 2
    /\ \A k \in 0..(pre.a.size - 1) : heap[pre.a.items[k]] = 0

\* the energy levels one step above e: none above HIGH
StepAbove(e) == IF e = LOW THEN {MEDIUM} ELSE IF e = MEDIUM THEN {HIGH} ELSE {}

\* track t is close in BPM and keeps or raises the energy by one step
Qualifies(t, currentBPM, currentEnergy) ==
    /\ t.bpm - currentBPM \in (0 - BPM_RANGE)..BPM_RANGE
    /\ t.energy \in {currentEnergy} \cup StepAbove(currentEnergy)

\* the indices of the tracks the last call listed, and of those that qualify
Listed == {cout[k].idx : k \in {j \in 1..Len(cout) : cout[j].kind = "suggested"}}
Qualifying == {i \in 0..(trackCount - 1) : Qualifies(library[i], op.arg, op.val)}
NoMatches == HasLine(cout, "No close matches found. Try adding more tracks.")

(* C18 as stated: recommendNextTracks lists a track if and only if its BPM *)
(* is within 5 of the current BPM and its energy is the current one or     *)
(* one step above; "No close matches found" is printed exactly when no     *)
(* stored track qualifies; the library is not modified.                    *)
C18_RecommendAsStated ==
    op.name = "recommendNextTracks" =>
        /\ Listed = Qualifying
        /\ NoMatches <=> (Qualifying = {})
        /\ library = pre.library /\ trackCount = pre.trackCount

(* C18: recommendNextTracks lists a library track if and only if the       *)
(* absolute difference between its BPM and the current BPM is <= 5 and its *)
(* energy equals the current energy or is exactly one step above it (for   *)
(* current energy High only High tracks qualify), each once and in library *)
(* order; "No close matches found" is printed exactly when the library is  *)
(* not empty and no stored track qualifies; on an empty library only "No   *)
(* tracks in library" is printed; the library is not modified.             *)
C18_Recommend ==
    op.name = "recommendNextTracks" =>
        /\ Listed = Qualifying
        /\ Len(SelectSeq(cout, LAMBDA l : l.kind = "suggested")) = Cardinality(Qualifying)
        /\ \A j, k \in 1..Len(cout) :
              (j < k /\ cout[j].kind = "suggested" /\ cout[k].kind = "suggested")
                 => cout[j].idx < cout[k].idx
        /\ NoMatches <=> (trackCount > 0 /\ Qualifying = {})
        /\ trackCount = 0 => cout = <<Msg("No tracks in library. Add tracks first.")>>
        /\ op.val = HIGH => \A i \in Listed : library[i].energy = HIGH
        /\ library = pre.library /\ trackCount = pre.trackCount

\* a recommendation that lists a track exactly 5 BPM away and leaves out a
\* track that is close in BPM but two energy steps above
C18_Witness ==
    /\ op.name = "recommendNextTracks"
    /\ \E i \in Listed : absValue(library[i].bpm - op.arg) = BPM_RANGE
    /\ \E j \in 0..(trackCount - 1) :
          /\ j \notin Listed
          /\ absValue(library[j].bpm - op.arg) <= BPM_RANGE
          /\ library[j].energy = op.val + 2

\* a recommendation on a non-empty library in which nothing qualifies
C18_WitnessNoMatches ==
    /\ op.name = "recommendNextTracks"
    /\ trackCount >= 2
    /\ NoMatches

(* C19: the legacy library has a fixed capacity: 0 <= trackCount <= 7      *)
(* after any sequence of menu operations; addTrack with trackCount < 7     *)
(* stores the new track at index trackCount and increments trackCount by   *)
(* 1, leaving the other slots unchanged; addTrack with trackCount = 7      *)
(* leaves the library and trackCount unchanged; no operation decreases     *)
(* trackCount.                                                             *)
C19_FixedCapacityLibrary ==
    /\ 0 <= trackCount /\ trackCount <= MAX_TRACKS
    /\ DOMAIN library = 0..(MAX_TRACKS - 1)
    /\ trackCount >= pre.trackCount
    /\ (op.name = "addTrack" /\ pre.trackCount < MAX_TRACKS) =>
          /\ trackCount = pre.trackCount + 1
          /\ library[pre.trackCount].bpm = op.arg
          /\ \A i \in 0..(MAX_TRACKS - 1) :
                i # pre.trackCount => library[i] = pre.library[i]
    /\ (op.name = "addTrack" /\ pre.trackCount = MAX_TRACKS) =>
          /\ library = pre.library
          /\ trackCount = pre.trackCount
    /\ (op.name # "addTrack" /\ scenario = "legacy") =>
          (library = pre.library /\ trackCount = pre.trackCount)

\* addTrack on a full library
C19_Witness ==
    /\ op.name = "addTrack"
    /\ pre.trackCount = MAX_TRACKS
    /\ trackCount = MAX_TRACKS
    /\ cout = <<Msg("Library is full")>>

\* addTrack that filled the last slot, after a track with another BPM
C19_WitnessLastSlot ==
    /\ op.name = "addTrack"
    /\ pre.trackCount = MAX_TRACKS - 1
    /\ trackCount = MAX_TRACKS
    /\ library[MAX_TRACKS - 1].bpm # library[0].bpm

\* the range of the prompt under test
PromptMin ==
    IF scenario = "menu prompt" THEN MENU_MIN ELSE IF scenario = "BPM prompt" THEN BPM_MIN ELSE 1
PromptMax ==
    IF scenario = "menu prompt" THEN MENU_MAX ELSE IF scenario = "BPM prompt" THEN BPM_MAX ELSE 3

\* the typed lines a prompt accepts: a number within its range
Accepted(typed) == {k \in 1..Len(typed) : typed[k].num /\ typed[k].v \in PromptMin..PromptMax}
IsPrompt == op.name \in {"getMenuChoice", "getValidatedInt", "getEnergyFromUser"}

(* C20: input validation is never fatal and admits only in-range values:   *)
(* getValidatedInt and getMenuChoice reject every out-of-range or          *)
(* non-numeric line by prompting again without changing the program state, *)
(* and return only a value v with min <= v <= max (the first such line);   *)
(* so every track stored through the menu, in the legacy library or in the *)
(* manager, has a BPM in [60, 200] and an energy in {Low, Medium, High},   *)
(* and every menu choice handed to the dispatch is in [1, 10].             *)
C20_InputValidation ==
    /\ IsPrompt =>
          /\ alive
          /\ m = pre.m /\ heap = pre.heap /\ objs = pre.objs
          /\ library = pre.library /\ trackCount = pre.trackCount
          /\ Len(cout) = op.arg
          /\ op.ok <=> Accepted(pre.cin) # {}
          /\ op.ok =>
                /\ op.val \in PromptMin..PromptMax
                /\ op.arg + 1 \in Accepted(pre.cin)
                /\ \A k \in 1..op.arg : k \notin Accepted(pre.cin)
                /\ op.val = pre.cin[op.arg + 1].v
                /\ cin = SubSeq(pre.cin, op.arg + 2, Len(pre.cin))
          /\ ~op.ok => (op.arg = Len(pre.cin) /\ cin = <<>>)
    /\ \A o \in 1..Len(objs) :
          /\ objs[o].bpm \in BPM_MIN..BPM_MAX
          /\ objs[o].energy \in {LOW, MEDIUM, HIGH}
    /\ \A i \in 0..(trackCount - 1) :
          /\ library[i].bpm \in BPM_MIN..BPM_MAX
          /\ library[i].energy \in {LOW, MEDIUM, HIGH}
    /\ (op.name = "getMenuChoice" /\ op.ok) => op.val \in MENU_MIN..MENU_MAX

\* the BPM prompt returned its upper limit after rejecting a number above
\* the range
C20_Witness ==
    /\ op.name = "getValidatedInt" /\ op.ok
    /\ op.arg = 1
    /\ op.val = BPM_MAX
    /\ pre.cin[1] = Num(BPM_MAX + 1)
    /\ cout = <<Msg("Invalid number. Enter")>>

\* the energy prompt returned after rejecting text
C20_WitnessText ==
    /\ op.name = "getEnergyFromUser" /\ op.ok
    /\ op.arg = 1
    /\ pre.cin[1] = NaN

\* the menu prompt rejected 0 and 11 and is prompting again
C20_WitnessStillPrompting ==
    /\ op.name = "getMenuChoice" /\ ~op.ok
    /\ pre.cin = <<Num(MENU_MIN - 1), Num(MENU_MAX + 1)>>
    /\ Len(cout) = 2 /\ alive

\* tracks stored through menu choices 5/6 and 1
C20_WitnessStoredManager == scenario = "main" /\ getSize(m) >= 2 /\ Len(objs) >= 3
C20_WitnessStoredLegacy == scenario = "legacy" /\ trackCount >= 2

\* the last call was menu choice 8
IsMenuRemove == scenario = "main" /\ op.val = 8

(* C21: menu choice 8 never issues an invalid removal: on an empty manager *)
(* it performs no removal and requests no index; on a non-empty manager    *)
(* the index obtained from safeIndexFromUser is in [0, size-1], so the     *)
(* removal succeeds, destroys exactly one object (the one at that index)   *)
(* and reduces the manager's size by exactly 1.                            *)
C21_MenuRemoveValid ==
    IsMenuRemove =>
        /\ op.name \in {"Nothing to remove", "-="}
        /\ op.name = "Nothing to remove" <=> getSize(pre.m) = 0
        /\ op.name = "Nothing to remove" =>
              /\ m = pre.m /\ heap = pre.heap /\ cin = pre.cin
              /\ cout = <<Msg("Nothing to remove.")>>
        /\ op.name = "-=" =>
              /\ op.arg \in 0..(getSize(pre.m) - 1)
              /\ TrackManager_removeAt(pre.m, pre.heap, op.arg).ret
              /\ getSize(m) = getSize(pre.m) - 1
              /\ Touched = {pre.m.items.items[op.arg]}
              /\ heap[pre.m.items.items[op.arg]] = 1
              /\ Contents(m.items) = Without(pre.m.items, op.arg)
              /\ HasLine(cout, "Remove attempted at index")

\* choice 8 removed the last of three or more tracks
C21_Witness ==
    /\ IsMenuRemove /\ op.name = "-="
    /\ getSize(pre.m) >= 3
    /\ op.arg = getSize(pre.m) - 1
    /\ getSize(m) = getSize(pre.m) - 1
    /\ Cardinality(Touched) = 1

\* choice 8 on a manager emptied by earlier removals
C21_WitnessEmpty ==
    /\ IsMenuRemove /\ op.name = "Nothing to remove"
    /\ nRemoved >= 1
    /\ getSize(m) = 0
====
